---- MODULE Spec2Model ----
(***************************************************************************)
(* Model of bot/handlers.py of llmxio/telestories: the router chain        *)
(* (root, admin, premium), the /start, /help and catch-all handlers, the   *)
(* identity synchronisation done by /start and the command-menu push.      *)
(*                                                                         *)
(* Every inbound message is handled by one task on a single cooperative    *)
(* event loop: a task keeps the loop (variable running) between two awaits *)
(* and other tasks may only run while it is suspended in an await.         *)
(***************************************************************************)
EXTENDS Integers, Sequences, FiniteSets, TLC

(***************************************************************************)
(* Bounds                                                                  *)
(***************************************************************************)
MaxTasks == 2
MaxMessages == 2

Tasks == 1..MaxTasks

(***************************************************************************)
(* Configuration                                                           *)
(***************************************************************************)
BOT_ADMIN_ID == 1

(***************************************************************************)
(* Inbound messages.  Optional attributes of the transport's objects hold  *)
(* the string "None" when absent; an absent sender is the record NoUser.   *)
(***************************************************************************)
NoUser ==
    [present |-> FALSE, id |-> 0, is_bot |-> FALSE, is_premium |-> "None",
     username |-> "None", language_code |-> "None"]

Senders ==
    { NoUser,
      [present |-> TRUE, id |-> 1, is_bot |-> FALSE, is_premium |-> "None",
       username |-> "None", language_code |-> "None"],
      [present |-> TRUE, id |-> 1, is_bot |-> FALSE, is_premium |-> "True",
       username |-> "root", language_code |-> "es"],
      [present |-> TRUE, id |-> 2, is_bot |-> FALSE, is_premium |-> "False",
       username |-> "bob", language_code |-> ""],
      [present |-> TRUE, id |-> 2, is_bot |-> FALSE, is_premium |-> "True",
       username |-> "bobby", language_code |-> "es"] }

ChatPayloads ==
    { [id |-> 2, type |-> "private", title |-> "None", username |-> "bob",
       first_name |-> "Bob", last_name |-> "B", is_forum |-> "None"],
      [id |-> 20, type |-> "supergroup", title |-> "G1", username |-> "None",
       first_name |-> "None", last_name |-> "None", is_forum |-> "True"] }

ChatIds == { c.id : c \in ChatPayloads }
UserIds == { u.id : u \in Senders \ {NoUser} }

\* The text of a message: its command prefix, its first word and whether
\* arguments follow; NoText is a message without text (a photo, a sticker).
NoText == [has_text |-> FALSE, prefix |-> "", command |-> "", args |-> FALSE]

CommandTexts ==
    { [has_text |-> TRUE, prefix |-> "/", command |-> "start", args |-> FALSE],
      [has_text |-> TRUE, prefix |-> "/", command |-> "help", args |-> FALSE],
      [has_text |-> TRUE, prefix |-> "/", command |-> "xyz", args |-> FALSE] }

OtherTexts ==
    { NoText,
      [has_text |-> TRUE, prefix |-> "/", command |-> "start", args |-> TRUE],
      [has_text |-> TRUE, prefix |-> "", command |-> "start", args |-> FALSE] }

Texts == CommandTexts \cup OtherTexts

\* The inbound messages of the model.  A private chat's id is the id of the
\* user talking to the bot, so only user 2 writes in chat 2; every sender
\* writes the three commands in the group chat; the other texts come from
\* the senders with id 2.  The dispatcher binds every message it delivers to
\* the bot instance.
Messages ==
    { m \in [from_user : Senders, chat : ChatPayloads, text : Texts, bot : {TRUE}] :
        /\ m.chat.type = "private" =>
              /\ m.from_user.present
              /\ m.from_user.id = m.chat.id
              /\ m.text.command = "start"
              /\ m.text \in CommandTexts
        /\ m.text \in OtherTexts => (m.from_user.id = 2 /\ m.from_user.is_premium = "False") }

\* The messages that arrive while another message is still being handled:
\* /start in the group chat from user 2, premium or not (the other senders
\* overlap with these as the sender of the message already in flight).
Overlapping ==
    { m \in Messages :
        /\ m.chat.id = 20
        /\ m.text = [has_text |-> TRUE, prefix |-> "/", command |-> "start", args |-> FALSE]
        /\ m.from_user.id = 2 }

NoMessage ==
    [from_user |-> NoUser,
     chat |-> [id |-> 0, type |-> "None", title |-> "None", username |-> "None",
               first_name |-> "None", last_name |-> "None", is_forum |-> "None"],
     text |-> NoText, bot |-> FALSE]

(***************************************************************************)
(* Localisation.  t(locale, key, ...) is the localisation collaborator:    *)
(* its result is determined by the locale, the key and the named           *)
(* arguments.  A literal string is a segment without locale.               *)
(***************************************************************************)
t(locale, key) == [locale |-> locale, key |-> key, args |-> <<>>]

targs(locale, key, args) == [locale |-> locale, key |-> key, args |-> args]

Literal(s) == [locale |-> "", key |-> s, args |-> <<>>]

(***************************************************************************)
(* Role classification, as each handler computes it from the sender.       *)
(***************************************************************************)
\* message.from_user.language_code or "en"
LocaleOf(u) ==
    IF u.language_code = "None" \/ u.language_code = "" THEN "en" ELSE u.language_code

\* message.from_user.id == BOT_ADMIN_ID
IsAdminOf(u) == u.id = BOT_ADMIN_ID

\* message.from_user.is_premium or False
IsPremiumOf(u) == u.is_premium = "True"

\* A guard that lets a message without sender through.
HasSenderAlways(m) == TRUE

\* if not message.from_user: return
HasSender(m) == m.from_user.present

(***************************************************************************)
(* Routers, their filters and their handlers in registration order.        *)
(***************************************************************************)
\* The root router without its catch-all handler.
root_router_commands_only ==
    [name |-> "root", filter |-> "none",
     handlers |-> << [matcher |-> "CommandStart", action |-> "command_start_handler"],
                     [matcher |-> "Command_help", action |-> "command_help_handler"] >>]

root_router ==
    [name |-> "root", filter |-> "none",
     handlers |-> << [matcher |-> "CommandStart", action |-> "command_start_handler"],
                     [matcher |-> "Command_help", action |-> "command_help_handler"],
                     [matcher |-> "any", action |-> "not_implemented_handler"] >>]

premium_router ==
    [name |-> "premium", filter |-> "IsPremium",
     handlers |-> << [matcher |-> "any", action |-> "not_implemented_premium_handler"] >>]

\* The admin router with the filter of the premium router.
admin_router_premium_filter ==
    [name |-> "admin", filter |-> "IsPremium",
     handlers |-> << [matcher |-> "any", action |-> "not_implemented_admin_handler"] >>]

admin_router ==
    [name |-> "admin", filter |-> "IsAdmin",
     handlers |-> << [matcher |-> "any", action |-> "not_implemented_admin_handler"] >>]

\* The routers with the filtered ones ahead of the root router.
get_routers_filtered_first == << admin_router, premium_router, root_router >>

\* Lines 237-239: [root_router, admin_router, premium_router]
get_routers == << root_router, admin_router, premium_router >>

\* The router-level filter: IsAdmin and IsPremium reject a message without
\* sender.
FilterAccepts(f, m) ==
    CASE f = "none" -> TRUE
      [] f = "IsAdmin" -> m.from_user.present /\ m.from_user.id = BOT_ADMIN_ID
      [] f = "IsPremium" -> m.from_user.present /\ m.from_user.is_premium = "True"

\* A command filter that looks at the prefix only.
CommandMatchesAnyName(m, name) == m.text.has_text /\ m.text.prefix = "/"

\* A command filter matches a text whose first word is the prefix "/"
\* followed by the command's name; arguments may follow.
CommandMatches(m, name) ==
    m.text.has_text /\ m.text.prefix = "/" /\ m.text.command = name

MatcherMatches(k, m) ==
    CASE k = "CommandStart" -> CommandMatches(m, "start")
      [] k = "Command_help" -> CommandMatches(m, "help")
      [] k = "any" -> TRUE

\* The first handler of router r that matches m: its index, or 0.
FirstHandler(r, m) ==
    LET hits == { i \in 1..Len(r.handlers) : MatcherMatches(r.handlers[i].matcher, m) }
    IN IF hits = {} THEN 0 ELSE CHOOSE i \in hits : \A j \in hits : i <= j

\* The first router at or after index ri whose filter accepts m and that has
\* a matching handler: its index, or 0 when the message stays unhandled.
RECURSIVE NextRouter(_, _)
NextRouter(ri, m) ==
    IF ri > Len(get_routers) THEN 0
    ELSE IF FilterAccepts(get_routers[ri].filter, m) /\ FirstHandler(get_routers[ri], m) # 0
         THEN ri
         ELSE NextRouter(ri + 1, m)

\* A handler that hands the event back to the dispatcher.
HandlerResultUnhandled(h) == "UNHANDLED"

\* What a handler returns to the dispatcher: each handler of the module
\* returns None, so the event counts as handled and propagation stops.
HandlerResult(h) == "None"

(***************************************************************************)
(* The command list of update_user_commands.                               *)
(***************************************************************************)
BotCommand(command, description) == [command |-> command, description |-> description]

BaseCommands(locale) ==
    << BotCommand("start", t(locale, "cmd.start")),
       BotCommand("help", t(locale, "cmd.help")),
       BotCommand("queue", t(locale, "cmd.queue")),
       BotCommand("profile", t(locale, "cmd.profile")),
       BotCommand("bugs", t(locale, "cmd.bugs")) >>

PremiumCommands(locale) ==
    << BotCommand("monitor", t(locale, "cmd.monitor")),
       BotCommand("unmonitor", t(locale, "cmd.unmonitor")) >>

AdminCommands(locale) ==
    << BotCommand("users", t(locale, "cmd.users")),
       BotCommand("history", t(locale, "cmd.history")),
       BotCommand("block", t(locale, "cmd.block")),
       BotCommand("unblock", t(locale, "cmd.unblock")),
       BotCommand("blocklist", t(locale, "cmd.blocklist")),
       BotCommand("status", t(locale, "cmd.status")),
       BotCommand("restart", t(locale, "cmd.restart")),
       BotCommand("bugreport", t(locale, "cmd.listbugs")),
       BotCommand("bugs", t(locale, "cmd.bugs")),
       BotCommand("reset_auth", Literal("Reset Telegram auth code")),
       BotCommand("flush", t(locale, "cmd.flush")),
       BotCommand("welcome", t(locale, "cmd.welcome")) >>

\* The list with the admin block appended before the premium block.
BuildCommandsAdminFirst(u, is_admin, is_premium) ==
    LET locale == LocaleOf(u)
        c0 == BaseCommands(locale)
        c1 == IF is_admin THEN c0 \o AdminCommands(locale) ELSE c0
    IN IF is_premium THEN c1 \o PremiumCommands(locale) ELSE c1

\* The list update_user_commands builds for a sender u and the role flags
\* its caller passes.
BuildCommands(u, is_admin, is_premium) ==
    LET locale == LocaleOf(u)
        c0 == BaseCommands(locale)
        c1 == IF is_premium THEN c0 \o PremiumCommands(locale) ELSE c0
    IN IF is_admin THEN c1 \o AdminCommands(locale) ELSE c1

\* The call of update_user_commands with the role flags in the other order.
StartCommandsSwapped(u) == BuildCommands(u, IsPremiumOf(u), IsAdminOf(u))

\* Lines 58-59 and 102: command_start_handler passes the role it classified,
\* update_user_commands(message, is_admin, is_premium).
StartCommands(u) == BuildCommands(u, IsAdminOf(u), IsPremiumOf(u))

\* A scope that names the sender instead of the chat.
CommandsScopeSender(m) == m.from_user.id

\* Line 228: the scope of the push, BotCommandScopeChat(chat_id=message.chat.id).
CommandsScope(m) == m.chat.id

(***************************************************************************)
(* The text of the /help reply, as a sequence of segments.                 *)
(***************************************************************************)
HelpHeader(locale) == << t(locale, "help.header"), Literal("\n\n") >>

HelpGeneral(locale) ==
    << targs(locale, "help.general",
             << <<"cmdStart", t(locale, "cmd.start")>>,
                <<"cmdHelp", t(locale, "cmd.help")>>,
                <<"cmdQueue", t(locale, "cmd.queue")>>,
                <<"cmdProfile", t(locale, "cmd.profile")>>,
                <<"cmdBugs", t(locale, "cmd.bugs")>> >>) >>

HelpPremium(locale) ==
    << Literal("\n"),
       targs(locale, "help.premium",
             << <<"cmdMonitor", t(locale, "cmd.monitor")>>,
                <<"cmdUnmonitor", t(locale, "cmd.unmonitor")>> >>) >>

HelpAdmin(locale) ==
    << Literal("\n"),
       targs(locale, "help.admin",
             << <<"cmdUsers", t(locale, "cmd.users")>>,
                <<"cmdHistory", t(locale, "cmd.history")>>,
                <<"cmdBlock", t(locale, "cmd.block")>>,
                <<"cmdUnblock", t(locale, "cmd.unblock")>>,
                <<"cmdBlocklist", t(locale, "cmd.blocklist")>>,
                <<"cmdRestart", t(locale, "cmd.restart")>>,
                <<"cmdStatus", t(locale, "cmd.status")>>,
                <<"cmdListbugs", t(locale, "cmd.listbugs")>> >>) >>

\* The help text with the admin section before the premium section.
HelpTextAdminFirst(u) ==
    HelpHeader(LocaleOf(u)) \o HelpGeneral(LocaleOf(u))
       \o (IF IsAdminOf(u) THEN HelpAdmin(LocaleOf(u)) ELSE <<>>)
       \o (IF IsPremiumOf(u) THEN HelpPremium(LocaleOf(u)) ELSE <<>>)

\* Lines 111-147: header and general section, then the premium section for a
\* premium sender, then the admin section for the admin.
HelpText(u) ==
    HelpHeader(LocaleOf(u)) \o HelpGeneral(LocaleOf(u))
       \o (IF IsPremiumOf(u) THEN HelpPremium(LocaleOf(u)) ELSE <<>>)
       \o (IF IsAdminOf(u) THEN HelpAdmin(LocaleOf(u)) ELSE <<>>)

\* The fixed reply of each catch-all handler.
PlaceholderText(h) ==
    CASE h = "not_implemented_handler" -> << Literal("User Not implemented!!!") >>
      [] h = "not_implemented_premium_handler" -> << Literal("Premium Not implemented!!!") >>
      [] h = "not_implemented_admin_handler" -> << Literal("Admin Not implemented!!!") >>

(***************************************************************************)
(* Identity records and the storage collaborator.                          *)
(***************************************************************************)
\* getattr(message.chat, name, None), and `or False` for is_forum;
\* created_at is the wall clock, the chat object having no such attribute.
\* The clock of the model is the number of messages received so far.
ChatData(m, now) ==
    [id |-> m.chat.id, type |-> m.chat.type, title |-> m.chat.title,
     username |-> m.chat.username, first_name |-> m.chat.first_name,
     last_name |-> m.chat.last_name, is_forum |-> (m.chat.is_forum = "True"),
     created_at |-> now]

\* UserCreate(chat_id=from_user.id, username=from_user.username or "", ...)
UserData(m) ==
    [chat_id |-> m.from_user.id,
     username |-> IF m.from_user.username = "None" THEN "" ELSE m.from_user.username,
     is_bot |-> m.from_user.is_bot,
     is_premium |-> IsPremiumOf(m.from_user)]

\* ChatRepository.try_create_chat: creates the row unless the id has one.
try_create_chat(table, chat_data) ==
    IF \E row \in table : row.id = chat_data.id THEN table ELSE table \cup {chat_data}

\* UserRepository.save_user: creates the row, or updates the mutable fields
\* (username, is_premium) of the row the id has.
save_user(table, user_data) ==
    IF \E row \in table : row.chat_id = user_data.chat_id
    THEN { IF row.chat_id = user_data.chat_id
           THEN [row EXCEPT !.username = user_data.username,
                            !.is_premium = user_data.is_premium]
           ELSE row : row \in table }
    ELSE table \cup {user_data}

\* The chat step written as an upsert.
StartChatStepUpsert(table, m, now) ==
    { row \in table : row.id # m.chat.id } \cup {ChatData(m, now)}

\* The user step written as a create-if-absent.
StartUserStepCreateOnly(table, m) ==
    IF \E row \in table : row.chat_id = m.from_user.id THEN table
    ELSE table \cup {UserData(m)}

\* Lines 64-75: the chat step of /start on the chat table.
StartChatStep(table, m, now) == try_create_chat(table, ChatData(m, now))

\* Lines 77-85: the user step of /start on the user table.
StartUserStep(table, m) == save_user(table, UserData(m))

(***************************************************************************)
(* State                                                                   *)
(***************************************************************************)
VARIABLES
    running,    \* the task that holds the event loop, 0 when the loop is free
    received,   \* number of messages delivered to the dispatcher so far
    pc,         \* pc[k]: where task k stands
    msg,        \* msg[k]: the message task k handles
    route,      \* route[k]: index in get_routers of the router being tried
    handler,    \* handler[k]: the handler that is executing for msg[k]
    executed,   \* executed[k]: handlers called for msg[k], in order
    calls,      \* calls[k]: transport calls made while handling msg[k]
    escaped,    \* escaped[k]: the exception that left the handler, or "none"
    logged,     \* logged[k]: error-level log records written for msg[k]
    opened,     \* opened[k]: storage sessions acquired while handling msg[k]
    closed,     \* closed[k]: close() calls on those sessions
    raised,     \* raised[k]: the storage step of msg[k] that raised, or "none"
    upserts,    \* upserts[k]: keys of the save_user calls made for msg[k]
    sessions,   \* number of storage sessions open now
    chats,      \* the stored ChatRecords
    users,      \* the stored UserRecords
    menu,       \* menu[c]: the command list of chat c, <<>> when never set
    applied,    \* applied[u]: the sender of the last /start whose save_user succeeded
    arrival,    \* arrival[k]: the position of msg[k] in the order of arrival
    pushes      \* pushes[c]: the accepted pushes to chat c, in order of acceptance

vars == << running, received, pc, msg, route, handler, executed, calls, escaped,
           logged, opened, closed, raised, upserts, sessions, chats, users, menu,
           applied, arrival, pushes >>

taskVars == << msg, route, handler, executed, calls, escaped, logged, opened,
               closed, raised, upserts >>

storeVars == << sessions, chats, users, applied >>

Init ==
    /\ running = 0
    /\ received = 0
    /\ pc = [k \in Tasks |-> "idle"]
    /\ msg = [k \in Tasks |-> NoMessage]
    /\ route = [k \in Tasks |-> 0]
    /\ handler = [k \in Tasks |-> "none"]
    /\ executed = [k \in Tasks |-> <<>>]
    /\ calls = [k \in Tasks |-> <<>>]
    /\ escaped = [k \in Tasks |-> "none"]
    /\ logged = [k \in Tasks |-> <<>>]
    /\ opened = [k \in Tasks |-> 0]
    /\ closed = [k \in Tasks |-> 0]
    /\ raised = [k \in Tasks |-> "none"]
    /\ upserts = [k \in Tasks |-> <<>>]
    /\ sessions = 0
    /\ chats = {}
    /\ users = {}
    /\ menu = [c \in ChatIds |-> <<>>]
    /\ applied = [u \in UserIds |-> {}]
    /\ arrival = [k \in Tasks |-> 0]
    /\ pushes = [c \in ChatIds |-> <<>>]

(***************************************************************************)
(* Transport calls                                                         *)
(***************************************************************************)
AnswerCall(m, text, parse_mode, no_preview) ==
    [op |-> "answer", scope |-> "None", chat_id |-> m.chat.id, text |-> text,
     parse_mode |-> parse_mode, disable_web_page_preview |-> no_preview,
     commands |-> <<>>]

SetMyCommandsCall(scope_chat_id, commands) ==
    [op |-> "set_my_commands", scope |-> "BotCommandScopeChat",
     chat_id |-> scope_chat_id, text |-> <<>>, parse_mode |-> "None",
     disable_web_page_preview |-> FALSE, commands |-> commands]

\* Outcomes of an awaited transport call.
AnswerOutcomes == {"ok", "raises"}
SetCommandsOutcomes == {"True", "False", "raises"}

\* Outcomes of a storage step: the record cannot be built, the repository
\* call raises, or the call returns.
StorageOutcomes == {"ok", "build_raises", "raises"}

(***************************************************************************)
(* Dispatcher                                                              *)
(***************************************************************************)
EntryOf(h) ==
    CASE h = "command_start_handler" -> "start_entry"
      [] h = "command_help_handler" -> "help_entry"
      [] OTHER -> "not_implemented"

\* The tasks whose message is being handled.
InFlight == { k \in Tasks : pc[k] # "idle" }

\* A message arrives at a dispatcher that includes the routers of
\* get_routers from the ri-th on; the dispatcher starts a task for it.
ReceiveAt(k, m, ri) ==
    /\ running = 0
    /\ InFlight # {} => m \in Overlapping
    /\ received < MaxMessages
    /\ pc[k] = "idle"
    /\ \A o \in Tasks : o < k => pc[o] # "idle"
    /\ running' = k
    /\ received' = received + 1
    /\ pc' = [pc EXCEPT ![k] = "dispatch"]
    /\ msg' = [msg EXCEPT ![k] = m]
    /\ arrival' = [arrival EXCEPT ![k] = received + 1]
    /\ route' = [route EXCEPT ![k] = ri]
    /\ UNCHANGED << handler, executed, calls, escaped, logged, opened, closed, raised,
                    upserts, storeVars, menu, pushes >>

\* A message arrives at the dispatcher that includes all of get_routers.
Receive(k, m) == ReceiveAt(k, m, 1)

\* The routers are tried in the order of get_routers, from route[k] on; the
\* first matching handler of the first accepting router is called.
Dispatch(k) ==
    /\ running = k
    /\ pc[k] = "dispatch"
    /\ LET ri == NextRouter(route[k], msg[k])
       IN IF ri = 0
          THEN /\ pc' = [pc EXCEPT ![k] = "done"]
               /\ UNCHANGED << route, handler, executed >>
          ELSE LET r == get_routers[ri]
                   h == r.handlers[FirstHandler(r, msg[k])].action
               IN /\ route' = [route EXCEPT ![k] = ri]
                  /\ handler' = [handler EXCEPT ![k] = h]
                  /\ executed' = [executed EXCEPT ![k] = Append(@, h)]
                  /\ pc' = [pc EXCEPT ![k] = EntryOf(h)]
    /\ UNCHANGED << running, received, msg, arrival, calls, escaped, logged, opened, closed, raised,
                    upserts, storeVars, menu, pushes >>

\* The task of a handled (or unhandled, or failed) message ends and leaves
\* the event loop.
Finish(k) ==
    /\ running = k
    /\ pc[k] = "done"
    /\ running' = 0
    /\ pc' = [pc EXCEPT ![k] = "idle"]
    /\ msg' = [msg EXCEPT ![k] = NoMessage]
    /\ arrival' = [arrival EXCEPT ![k] = 0]
    /\ route' = [route EXCEPT ![k] = 0]
    /\ handler' = [handler EXCEPT ![k] = "none"]
    /\ executed' = [executed EXCEPT ![k] = <<>>]
    /\ calls' = [calls EXCEPT ![k] = <<>>]
    /\ escaped' = [escaped EXCEPT ![k] = "none"]
    /\ logged' = [logged EXCEPT ![k] = <<>>]
    /\ opened' = [opened EXCEPT ![k] = 0]
    /\ closed' = [closed EXCEPT ![k] = 0]
    /\ raised' = [raised EXCEPT ![k] = "none"]
    /\ upserts' = [upserts EXCEPT ![k] = <<>>]
    /\ UNCHANGED << received, storeVars, menu, pushes >>

\* The handler returned: the event is handled unless the result is UNHANDLED,
\* in which case the next router is tried.
HandlerReturn(k) ==
    /\ running = k
    /\ pc[k] = "return"
    /\ IF HandlerResult(handler[k]) = "UNHANDLED"
       THEN /\ pc' = [pc EXCEPT ![k] = "dispatch"]
            /\ route' = [route EXCEPT ![k] = @ + 1]
       ELSE /\ pc' = [pc EXCEPT ![k] = "done"]
            /\ UNCHANGED route
    /\ UNCHANGED << running, received, msg, arrival, handler, executed, calls, escaped, logged, opened,
                    closed, raised, upserts, storeVars, menu, pushes >>

(***************************************************************************)
(* command_start_handler                                                   *)
(***************************************************************************)
\* The awaited call raises in task k, which is resumed with the exception;
\* nothing catches it, so it leaves the handler and the task ends.
Escape(k, what) ==
    /\ escaped' = [escaped EXCEPT ![k] = what]
    /\ pc' = [pc EXCEPT ![k] = "done"]
    /\ running' = k

\* Lines 53-61: no sender, no work; otherwise the role is classified and a
\* storage session is acquired.
StartEntry(k) ==
    /\ running = k
    /\ pc[k] = "start_entry"
    /\ IF ~HasSender(msg[k])
       THEN /\ pc' = [pc EXCEPT ![k] = "return"]
            /\ UNCHANGED << opened, sessions >>
       ELSE /\ pc' = [pc EXCEPT ![k] = "start_chat"]
            /\ opened' = [opened EXCEPT ![k] = @ + 1]
            /\ sessions' = sessions + 1
    /\ UNCHANGED << running, received, msg, arrival, route, handler, executed, calls, escaped,
                    logged, closed, raised, upserts, chats, users, menu, pushes, applied >>

\* What a storage step leaves in raised[k]: the step and whether building the
\* record or the repository call raised.
RaisedBy(step, outcome) ==
    CASE outcome = "ok" -> "none"
      [] outcome = "build_raises" -> IF step = "chat" THEN "chat_build" ELSE "user_build"
      [] outcome = "raises" -> step

\* The except clause that ends the handler's storage work without the
\* finally clause.
AfterExceptNoFinally == "start_answer"

\* Line 88-91: the except clause swallows the exception and falls into the
\* finally clause.
AfterExcept == "start_finally"

\* The handler that pushes the command menu right after the storage work.
AfterFinallyPushFirst == "commands_entry"

\* Lines 91-95: after the finally clause the welcome reply is sent.
AfterFinally == "start_answer"

\* A chat step that is awaited: the task gives the loop away.
LoopAfterChatStepAwaited(k) == 0

\* Lines 75-78: try_create_chat is a plain call, so the task keeps the event
\* loop between the chat step and the user step.
LoopAfterChatStep(k) == k

\* Where the try block goes after the chat step and after the user step.
AfterChatStep(outcome) == IF outcome = "ok" THEN "start_user" ELSE "start_except"

AfterUserStep(outcome) == IF outcome = "ok" THEN "start_finally" ELSE "start_except"

\* Lines 64-75: build the ChatSchema, try_create_chat.
StartChat(k) ==
    /\ running = k
    /\ pc[k] = "start_chat"
    /\ \E outcome \in StorageOutcomes :
          /\ chats' = IF outcome = "ok" THEN StartChatStep(chats, msg[k], received) ELSE chats
          /\ raised' = [raised EXCEPT ![k] = RaisedBy("chat", outcome)]
          /\ pc' = [pc EXCEPT ![k] = AfterChatStep(outcome)]
    /\ running' = LoopAfterChatStep(k)
    /\ UNCHANGED << received, msg, arrival, route, handler, executed, calls, escaped,
                    logged, opened, closed, upserts, sessions, users, menu, pushes, applied >>

\* Lines 77-87: build the UserCreate, save_user.
StartUser(k) ==
    /\ running = k
    /\ pc[k] = "start_user"
    /\ \E outcome \in StorageOutcomes :
          /\ users' = IF outcome = "ok" THEN StartUserStep(users, msg[k]) ELSE users
          /\ applied' = IF outcome = "ok"
                        THEN [applied EXCEPT ![msg[k].from_user.id] = {msg[k].from_user}]
                        ELSE applied
          /\ upserts' = [upserts EXCEPT ![k] = IF outcome = "build_raises" THEN @
                                               ELSE Append(@, UserData(msg[k]).chat_id)]
          /\ raised' = [raised EXCEPT ![k] = RaisedBy("user", outcome)]
          /\ pc' = [pc EXCEPT ![k] = AfterUserStep(outcome)]
    /\ UNCHANGED << running, received, msg, arrival, route, handler, executed, calls, escaped,
                    logged, opened, closed, sessions, chats, menu, pushes >>

\* Lines 88-89: except Exception: the error is logged and swallowed.
StartExcept(k) ==
    /\ running = k
    /\ pc[k] = "start_except"
    /\ logged' = [logged EXCEPT ![k] = Append(@, "Failed to save user on /start")]
    /\ pc' = [pc EXCEPT ![k] = AfterExcept]
    /\ UNCHANGED << running, received, msg, arrival, route, handler, executed, calls, escaped,
                    opened, closed, raised, upserts, storeVars, menu, pushes >>

\* Lines 90-91: finally: session.close().
StartFinally(k) ==
    /\ running = k
    /\ pc[k] = "start_finally"
    /\ closed' = [closed EXCEPT ![k] = @ + 1]
    /\ sessions' = sessions - 1
    /\ pc' = [pc EXCEPT ![k] = AfterFinally]
    /\ UNCHANGED << running, received, msg, arrival, route, handler, executed, calls, escaped,
                    logged, opened, raised, upserts, chats, users, menu, pushes, applied >>

\* Lines 93-99: the welcome reply is sent and awaited; the loop is released.
StartAnswer(k) ==
    /\ running = k
    /\ pc[k] = "start_answer"
    /\ calls' = [calls EXCEPT ![k] =
                   Append(@, AnswerCall(msg[k],
                                        << t(LocaleOf(msg[k].from_user), "start.instructions") >>,
                                        "Markdown", TRUE))]
    /\ pc' = [pc EXCEPT ![k] = "start_answer_wait"]
    /\ running' = 0
    /\ UNCHANGED << received, msg, arrival, route, handler, executed, escaped, logged, opened,
                    closed, raised, upserts, storeVars, menu, pushes >>

\* The await of line 95 ends: the reply was sent, or the transport raised and
\* the exception leaves the handler.
StartAnswerResume(k) ==
    /\ running = 0
    /\ pc[k] = "start_answer_wait"
    /\ \E outcome \in AnswerOutcomes :
          IF outcome = "ok"
          THEN /\ pc' = [pc EXCEPT ![k] = "commands_entry"]
               /\ running' = k
               /\ UNCHANGED escaped
          ELSE Escape(k, "TransportError")
    /\ UNCHANGED << received, msg, arrival, route, handler, executed, calls, logged, opened,
                    closed, raised, upserts, storeVars, menu, pushes >>

(***************************************************************************)
(* update_user_commands                                                    *)
(***************************************************************************)
\* Lines 177-229: without sender or bot nothing is pushed; otherwise the list
\* is built and set_my_commands is awaited for the chat of the message.
CommandsEntry(k) ==
    /\ running = k
    /\ pc[k] = "commands_entry"
    /\ IF ~HasSender(msg[k]) \/ ~msg[k].bot
       THEN /\ pc' = [pc EXCEPT ![k] = "return"]
            /\ UNCHANGED << calls, running >>
       ELSE /\ calls' = [calls EXCEPT ![k] =
                           Append(@, SetMyCommandsCall(CommandsScope(msg[k]),
                                                       StartCommands(msg[k].from_user)))]
            /\ pc' = [pc EXCEPT ![k] = "commands_wait"]
            /\ running' = 0
    /\ UNCHANGED << received, msg, arrival, route, handler, executed, escaped, logged, opened,
                    closed, raised, upserts, storeVars, menu, pushes >>

\* Lines 226-234: the transport accepted the list (the menu of the scoped
\* chat is replaced), refused it (logged as an error), or raised.
CommandsResume(k) ==
    /\ running = 0
    /\ pc[k] = "commands_wait"
    /\ LET call == calls[k][Len(calls[k])]
       IN \E outcome \in SetCommandsOutcomes :
             CASE outcome = "True" ->
                    /\ menu' = [menu EXCEPT ![call.chat_id] = call.commands]
                    /\ pushes' = [pushes EXCEPT ![call.chat_id] =
                                      Append(@, [arrival |-> arrival[k],
                                                 from_user |-> msg[k].from_user])]
                    /\ pc' = [pc EXCEPT ![k] = "return"]
                    /\ running' = k
                    /\ UNCHANGED << logged, escaped >>
               [] outcome = "False" ->
                    /\ logged' = [logged EXCEPT ![k] = Append(@, "Failed to update commands")]
                    /\ pc' = [pc EXCEPT ![k] = "return"]
                    /\ running' = k
                    /\ UNCHANGED << menu, pushes, escaped >>
               [] outcome = "raises" ->
                    /\ Escape(k, "TransportError")
                    /\ UNCHANGED << menu, pushes, logged >>
    /\ UNCHANGED << received, msg, arrival, route, handler, executed, calls, opened,
                    closed, raised, upserts, storeVars >>

(***************************************************************************)
(* command_help_handler and the catch-all handlers                         *)
(***************************************************************************)
\* Lines 108-149: no sender, no reply; otherwise the help text is sent.
HelpEntry(k) ==
    /\ running = k
    /\ pc[k] = "help_entry"
    /\ IF ~HasSender(msg[k])
       THEN /\ pc' = [pc EXCEPT ![k] = "return"]
            /\ UNCHANGED << calls, running >>
       ELSE /\ calls' = [calls EXCEPT ![k] =
                           Append(@, AnswerCall(msg[k], HelpText(msg[k].from_user),
                                                "Markdown", FALSE))]
            /\ pc' = [pc EXCEPT ![k] = "reply_wait"]
            /\ running' = 0
    /\ UNCHANGED << received, msg, arrival, route, handler, executed, escaped, logged, opened,
                    closed, raised, upserts, storeVars, menu, pushes >>

\* Lines 157-169: the catch-all of a router answers with its placeholder.
NotImplemented(k) ==
    /\ running = k
    /\ pc[k] = "not_implemented"
    /\ calls' = [calls EXCEPT ![k] =
                   Append(@, AnswerCall(msg[k], PlaceholderText(handler[k]), "None", FALSE))]
    /\ pc' = [pc EXCEPT ![k] = "reply_wait"]
    /\ running' = 0
    /\ UNCHANGED << received, msg, arrival, route, handler, executed, escaped, logged, opened,
                    closed, raised, upserts, storeVars, menu, pushes >>

\* The await of the reply of /help or of a catch-all ends.
ReplyResume(k) ==
    /\ running = 0
    /\ pc[k] = "reply_wait"
    /\ \E outcome \in AnswerOutcomes :
          IF outcome = "ok"
          THEN /\ pc' = [pc EXCEPT ![k] = "return"]
               /\ running' = k
               /\ UNCHANGED escaped
          ELSE Escape(k, "TransportError")
    /\ UNCHANGED << received, msg, arrival, route, handler, executed, calls, logged, opened,
                    closed, raised, upserts, storeVars, menu, pushes >>

(***************************************************************************)
(* Specification                                                           *)
(***************************************************************************)
\* The steps of the handling of a message once it is received.
Handle(k) ==
    \/ Dispatch(k)
    \/ HandlerReturn(k)
    \/ Finish(k)
    \/ StartEntry(k)
    \/ StartChat(k)
    \/ StartUser(k)
    \/ StartExcept(k)
    \/ StartFinally(k)
    \/ StartAnswer(k)
    \/ StartAnswerResume(k)
    \/ CommandsEntry(k)
    \/ CommandsResume(k)
    \/ HelpEntry(k)
    \/ NotImplemented(k)
    \/ ReplyResume(k)

Next ==
    \E k \in Tasks :
        \/ \E m \in Messages : Receive(k, m)
        \/ Handle(k)

Spec == Init /\ [][Next]_vars

\* The routers taken one suffix of get_routers at a time: a message is
\* offered to the chain that starts at any of the routers, so that the admin
\* and the premium router are reached by the messages the root router would
\* have claimed.  Which handler a message reaches depends on the message
\* alone, so the messages are offered one after the other.
ReceiveAlone(k, m, ri) ==
    /\ InFlight = {}
    /\ ReceiveAt(k, m, ri)

NextRouters ==
    \E k \in Tasks :
        \/ \E m \in Messages, ri \in 1..Len(get_routers) : ReceiveAlone(k, m, ri)
        \/ Handle(k)

SpecRouters == Init /\ [][NextRouters]_vars

(***************************************************************************)
(* Properties of the router chain                                          *)
(***************************************************************************)
\* Handler h is the one first-match-wins selects for message m: it is the
\* hi-th handler of the ri-th router, that router accepts m and the handler
\* matches, no earlier router accepts m with a matching handler, and no
\* earlier handler of the router matches.
SelectedBy(h, m) ==
    \E ri \in 1..Len(get_routers) :
        LET r == get_routers[ri]
        IN \E hi \in 1..Len(r.handlers) :
              /\ h = r.handlers[hi].action
              /\ FilterAccepts(r.filter, m)
              /\ MatcherMatches(r.handlers[hi].matcher, m)
              /\ \A hj \in 1..(hi - 1) : ~MatcherMatches(r.handlers[hj].matcher, m)
              /\ \A rj \in 1..(ri - 1) :
                    ~(/\ FilterAccepts(get_routers[rj].filter, m)
                      /\ \E hj \in 1..Len(get_routers[rj].handlers) :
                            MatcherMatches(get_routers[rj].handlers[hj].matcher, m))

\* C1: for every inbound message, whatever the sender's role and the text,
\* exactly one handler executes: never more than one at any time, exactly one
\* once the message is handled, and it is the handler chosen by
\* first-match-wins over the routers in the order root, admin, premium and
\* over the handlers of the router (/start and /help before the catch-all).
C1_ExactlyOneHandler ==
    /\ << get_routers[1].name, get_routers[2].name, get_routers[3].name >>
          = << "root", "admin", "premium" >>
    /\ \A k \in Tasks :
          /\ Len(executed[k]) <= 1
          /\ pc[k] \notin {"idle", "dispatch"} =>
                /\ Len(executed[k]) = 1
                /\ SelectedBy(executed[k][1], msg[k])

\* C1 witness: a message of the admin who is premium too was handled by one
\* handler, the root catch-all.
C1_Witness ==
    \E k \in Tasks :
        /\ pc[k] = "done"
        /\ msg[k].from_user.id = BOT_ADMIN_ID
        /\ msg[k].from_user.is_premium = "True"
        /\ msg[k].text.command = "xyz"
        /\ executed[k] = << "not_implemented_handler" >>

\* The message is neither /start nor /help.
IsOtherMessage(m) ==
    ~(m.text.has_text /\ m.text.prefix = "/" /\ m.text.command \in {"start", "help"})

\* The sender is neither the admin nor premium (or there is no sender).
IsPlainSender(u) == ~(u.present /\ (u.id = BOT_ADMIN_ID \/ u.is_premium = "True"))

\* C2: a message that is neither /start nor /help, from a sender who is
\* neither admin nor premium, is answered by exactly one reply, the text
\* "User Not implemented!!!" of the root catch-all; the dispatcher never
\* finishes with it without that reply, and no handler of the admin or
\* premium router runs for it.
C2_PlainUnmatchedAnswered ==
    \A k \in Tasks :
        (pc[k] # "idle" /\ IsOtherMessage(msg[k]) /\ IsPlainSender(msg[k].from_user)) =>
            /\ \A i \in 1..Len(executed[k]) : executed[k][i] = "not_implemented_handler"
            /\ Len(calls[k]) <= 1
            /\ \A i \in 1..Len(calls[k]) :
                  /\ calls[k][i].op = "answer"
                  /\ calls[k][i].chat_id = msg[k].chat.id
                  /\ calls[k][i].text = << Literal("User Not implemented!!!") >>
            /\ pc[k] \in {"reply_wait", "return", "done"} => Len(calls[k]) = 1

\* C2 witness: /xyz of user 2, not premium, was answered by the root
\* catch-all.
C2_Witness ==
    \E k \in Tasks :
        /\ pc[k] = "done"
        /\ msg[k].text.command = "xyz"
        /\ msg[k].from_user.id = 2
        /\ msg[k].from_user.is_premium = "False"
        /\ Len(calls[k]) = 1
        /\ calls[k][1].text = << Literal("User Not implemented!!!") >>
        /\ escaped[k] = "none"

(***************************************************************************)
(* Properties of command_start_handler                                     *)
(***************************************************************************)
HasCall(k, op) == \E i \in 1..Len(calls[k]) : calls[k][i].op = op

\* The positions of the handler between the acquisition of the session and
\* its close, and those after the close.
InSync == {"start_chat", "start_user", "start_except", "start_finally"}

AfterSync == {"start_answer", "start_answer_wait", "commands_entry", "commands_wait"}

\* Task k ran command_start_handler for a message with a sender, and is past
\* the handler's storage work.
StartedPastSync(k) ==
    /\ handler[k] = "command_start_handler"
    /\ msg[k].from_user.present
    /\ pc[k] \in AfterSync \cup {"return", "done"}

\* C3 (as claimed): when a storage step of /start raised, the handler ends
\* with the welcome reply sent and the command-menu push attempted, and no
\* exception of the storage step left it.
C3_StorageFailureIsolated ==
    \A k \in Tasks :
        (pc[k] = "done" /\ raised[k] # "none") =>
            /\ HasCall(k, "answer")
            /\ HasCall(k, "set_my_commands")
            /\ escaped[k] # "StorageError"

\* C4 (as claimed): no exception of a transport call leaves a handler, a
\* transport failure is logged, and /start attempts the command-menu push
\* whatever became of the welcome reply.
C4_TransportFailureContained ==
    \A k \in Tasks :
        (handler[k] = "command_start_handler" /\ msg[k].from_user.present) =>
            /\ escaped[k] = "none"
            /\ pc[k] = "done" => HasCall(k, "set_my_commands")

\* C5: every session a /start invocation acquires is closed exactly once by
\* that invocation: at most one session is acquired, it is never closed
\* twice, it is closed as soon as the storage work is left on any path
\* (success, chat step raising, user step raising, a record that cannot be
\* built), and the number of open sessions is the number of invocations
\* still in their storage work.
C5_SessionClosedOnce ==
    /\ \A k \in Tasks :
          /\ closed[k] <= opened[k]
          /\ opened[k] <= 1
          /\ pc[k] \in InSync => (opened[k] = 1 /\ closed[k] = 0)
          /\ pc[k] \notin InSync => closed[k] = opened[k]
          /\ StartedPastSync(k) => (opened[k] = 1 /\ closed[k] = 1)
    /\ sessions = Cardinality({ k \in Tasks : pc[k] \in InSync })

\* C5 witness: an invocation whose chat record could not be built has ended
\* with its session closed.
C5_Witness ==
    \E k \in Tasks :
        /\ pc[k] = "done"
        /\ raised[k] = "chat_build"
        /\ opened[k] = 1
        /\ closed[k] = 1
        /\ sessions = 0

\* C6: within one /start, the identity sync has completed (both storage
\* steps done, or the failure logged and swallowed, and the session closed)
\* before the welcome reply is sent, and the welcome reply is the first
\* transport call, the command-menu push the second and last.
C6_SyncThenReplyThenMenu ==
    \A k \in Tasks :
        handler[k] = "command_start_handler" =>
            /\ pc[k] \in InSync \cup {"start_entry"} => calls[k] = <<>>
            /\ Len(calls[k]) >= 1 =>
                  /\ calls[k][1].op = "answer"
                  /\ opened[k] = 1 /\ closed[k] = 1
                  /\ raised[k] = "none" =>
                        /\ \E row \in chats : row.id = msg[k].chat.id
                        /\ upserts[k] = << msg[k].from_user.id >>
                  /\ raised[k] # "none" => logged[k] # <<>>
            /\ Len(calls[k]) >= 2 =>
                  /\ calls[k][2].op = "set_my_commands"
                  /\ Len(calls[k]) = 2
            /\ pc[k] \in {"commands_entry", "commands_wait"} => Len(calls[k]) >= 1

\* C6 witness: a /start whose user step raised has sent the reply and then
\* pushed the menu.
C6_Witness ==
    \E k \in Tasks :
        /\ pc[k] = "done"
        /\ raised[k] = "user"
        /\ Len(calls[k]) = 2
        /\ calls[k][1].op = "answer"
        /\ calls[k][2].op = "set_my_commands"

\* The message is the /start command.
IsStartMessage(m) == m.text.has_text /\ m.text.prefix = "/" /\ m.text.command = "start"

\* C7: identity sync runs once per /start message that has a sender and on
\* no other message: only a task handling such a message changes the stored
\* chat or user records or acquires a session; a handled /start with a sender
\* has acquired exactly one session, and every other message (/help, the
\* catch-all ones, /start without sender) none, with no save_user call.
C7_SyncOnlyOnStart ==
    /\ [][(chats' # chats \/ users' # users \/ sessions' # sessions \/ opened' # opened
             \/ upserts' # upserts) =>
            \E k \in Tasks :
                /\ running = k
                /\ IsStartMessage(msg[k])
                /\ msg[k].from_user.present]_vars
    /\ [](\A k \in Tasks :
            /\ ~(IsStartMessage(msg[k]) /\ msg[k].from_user.present) =>
                  (opened[k] = 0 /\ upserts[k] = <<>>)
            /\ (pc[k] = "done" /\ IsStartMessage(msg[k]) /\ msg[k].from_user.present) =>
                  opened[k] = 1)

\* C7 witness: /help of a sender was answered and nothing is stored.
C7_Witness ==
    \E k \in Tasks :
        /\ pc[k] = "done"
        /\ handler[k] = "command_help_handler"
        /\ msg[k].from_user.present
        /\ Len(calls[k]) = 1
        /\ opened[k] = 0
        /\ chats = {} /\ users = {} /\ sessions = 0

\* C8: storage holds at most one ChatRecord per chat id, a stored record is
\* never altered or removed (the first successful creation wins), and a
\* /start whose chat step returns for a chat id that has a record leaves the
\* chat table as it was.
C8_ChatFirstWriteWins ==
    /\ [](\A c \in ChatIds : Cardinality({ row \in chats : row.id = c }) <= 1)
    /\ [][chats \subseteq chats']_vars
    /\ [][\A k \in Tasks :
            (/\ pc[k] = "start_chat" /\ pc'[k] = "start_user"
             /\ \E row \in chats : row.id = msg[k].chat.id) => chats' = chats]_vars

\* C8 witness: the chat step of a later /start has returned (no error) and
\* the record of its chat is still the one created at an earlier time.
C8_Witness ==
    \E k \in Tasks :
        /\ pc[k] = "start_user"
        /\ raised[k] = "none"
        /\ \E row \in chats : row.id = msg[k].chat.id /\ row.created_at < received

\* The username and the premium flag a /start of sender u carries into
\* storage.
UsernameOf(u) == IF u.username = "None" THEN "" ELSE u.username

PremiumOf(u) == u.is_premium = "True"

\* C9: storage holds at most one UserRecord per user, none before the first
\* successful upsert and afterwards one whose username and is_premium are
\* those of the last /start whose upsert succeeded; a /start that carries the
\* values already stored leaves the user table unchanged.
C9_UserLastWriteWins ==
    /\ [](\A u \in UserIds :
            LET rows == { row \in users : row.chat_id = u }
            IN /\ Cardinality(rows) <= 1
               /\ applied[u] = {} => rows = {}
               /\ \A s \in applied[u] :
                     \E row \in rows : /\ row.username = UsernameOf(s)
                                       /\ row.is_premium = PremiumOf(s))
    /\ [][\A k \in Tasks :
            (/\ pc[k] = "start_user" /\ pc'[k] = "start_finally"
             /\ applied[msg[k].from_user.id] = {msg[k].from_user}) => users' = users]_vars

\* C9 witness: user 2 sent /start twice with different username and premium
\* values; both upserts succeeded and the record has the values of the
\* second.
C9_Witness ==
    \E k1, k2 \in Tasks :
        /\ k1 # k2
        /\ msg[k1].from_user.id = 2 /\ msg[k2].from_user.id = 2
        /\ msg[k1].from_user.is_premium = "False" /\ msg[k2].from_user.is_premium = "True"
        /\ pc[k1] = "start_answer_wait" /\ raised[k1] = "none"
        /\ pc[k2] = "start_finally" /\ raised[k2] = "none"
        /\ users = { [chat_id |-> 2, username |-> "bobby", is_bot |-> FALSE,
                      is_premium |-> TRUE] }

\* C10 (as claimed): every /start of a sender attempts the user upsert, keyed
\* by the sender's id, whatever the chat step did (building the UserRecord
\* counts as part of the attempt).
C10_UpsertAlwaysAttempted ==
    \A k \in Tasks :
        (StartedPastSync(k) /\ raised[k] # "user_build") =>
            upserts[k] = << msg[k].from_user.id >>

(***************************************************************************)
(* Properties of update_user_commands                                      *)
(***************************************************************************)
\* The command identifiers of a command list, in order.
Names(commands) == [i \in 1..Len(commands) |-> commands[i].command]

BaseNames == << "start", "help", "queue", "profile", "bugs" >>

PremiumNames == << "monitor", "unmonitor" >>

AdminNames ==
    << "users", "history", "block", "unblock", "blocklist", "status", "restart",
       "bugreport", "bugs", "reset_auth", "flush", "welcome" >>

\* base ++ (premium block if is_premium) ++ (admin block if is_admin)
ExpectedNames(is_admin, is_premium) ==
    BaseNames \o (IF is_premium THEN PremiumNames ELSE <<>>)
              \o (IF is_admin THEN AdminNames ELSE <<>>)

\* For every sender and every combination of the role flags the list built is
\* base ++ premium block (if is_premium) ++ admin block (if is_admin), with
\* the base list as its prefix.
ListOfEveryRole ==
    \A u \in Senders \ {NoUser} : \A a \in BOOLEAN, p \in BOOLEAN :
        /\ Names(BuildCommands(u, a, p)) = ExpectedNames(a, p)
        /\ SubSeq(Names(BuildCommands(u, a, p)), 1, 5) = BaseNames

\* C11: for every combination of (is_admin, is_premium) and every sender,
\* the list update_user_commands builds is base ++ premium block (if
\* is_premium) ++ admin block (if is_admin), so the base list is a prefix and
\* the premium block precedes the admin block; every push made by /start
\* carries the list of the role of its sender.
C11_CommandListByRole ==
    /\ ListOfEveryRole
    /\ \A k \in Tasks : \A i \in 1..Len(calls[k]) :
          calls[k][i].op = "set_my_commands" =>
              Names(calls[k][i].commands) =
                  ExpectedNames(msg[k].from_user.id = BOT_ADMIN_ID,
                                msg[k].from_user.is_premium = "True")

\* C11 witness: the admin who is premium too has been pushed the nineteen
\* commands base, premium, admin.
C11_Witness ==
    \E k \in Tasks :
        /\ pc[k] = "commands_wait"
        /\ msg[k].from_user.id = BOT_ADMIN_ID
        /\ msg[k].from_user.is_premium = "True"
        /\ Len(calls[k]) = 2
        /\ Names(calls[k][2].commands) = BaseNames \o PremiumNames \o AdminNames

\* C12: every command-menu push made while handling a message has the scope
\* of one chat, the chat the message arrived in; the menu of a chat changes
\* only when the push of a message of that chat is accepted, so handling a
\* message in chat c leaves the menu of every other chat unchanged.
C12_PushScopedToChat ==
    /\ [](\A k \in Tasks : \A i \in 1..Len(calls[k]) :
            calls[k][i].op = "set_my_commands" =>
                /\ calls[k][i].scope = "BotCommandScopeChat"
                /\ calls[k][i].chat_id = msg[k].chat.id)
    /\ [][\A c \in ChatIds :
            menu'[c] # menu[c] =>
                \E k \in Tasks : /\ pc[k] = "commands_wait"
                                 /\ pc'[k] = "return"
                                 /\ msg[k].chat.id = c]_vars

\* C12 witness: the push of a /start in chat 20 has been accepted while the
\* menu of chat 2, set before, is not the list just pushed.
C12_Witness ==
    \E k \in Tasks :
        /\ pc[k] = "return"
        /\ msg[k].chat.id = 20
        /\ Len(calls[k]) = 2
        /\ menu[20] = calls[k][2].commands
        /\ menu[2] # <<>>
        /\ menu[2] # menu[20]

(***************************************************************************)
(* Properties of the router filters                                        *)
(***************************************************************************)
\* C13: the handler of the admin router executes only for a message whose
\* sender has the configured admin id, and the handler of the premium router
\* only for a message whose sender's premium flag is true; no other sender is
\* answered with the admin or the premium placeholder.
C13_FiltersGateHandlers ==
    \A k \in Tasks :
        /\ \A i \in 1..Len(executed[k]) :
              /\ executed[k][i] = "not_implemented_admin_handler" =>
                    (msg[k].from_user.present /\ msg[k].from_user.id = BOT_ADMIN_ID)
              /\ executed[k][i] = "not_implemented_premium_handler" =>
                    (msg[k].from_user.present /\ msg[k].from_user.is_premium = "True")
        /\ \A i \in 1..Len(calls[k]) :
              /\ calls[k][i].text = << Literal("Admin Not implemented!!!") >> =>
                    (msg[k].from_user.present /\ msg[k].from_user.id = BOT_ADMIN_ID)
              /\ calls[k][i].text = << Literal("Premium Not implemented!!!") >> =>
                    (msg[k].from_user.present /\ msg[k].from_user.is_premium = "True")

\* C13 witness: offered to the admin router, a message of the admin, who is
\* not premium, was answered with the admin placeholder.
C13_Witness ==
    \E k \in Tasks :
        /\ pc[k] = "done"
        /\ executed[k] = << "not_implemented_admin_handler" >>
        /\ msg[k].from_user.id = BOT_ADMIN_ID
        /\ msg[k].from_user.is_premium = "None"
        /\ Len(calls[k]) = 1
        /\ calls[k][1].text = << Literal("Admin Not implemented!!!") >>

(***************************************************************************)
(* Messages without a sender                                               *)
(***************************************************************************)
\* Task k runs command_start_handler or command_help_handler for a message
\* that carries no sender.
SenderlessCommand(k) ==
    /\ handler[k] \in {"command_start_handler", "command_help_handler"}
    /\ ~msg[k].from_user.present

\* C14: a /start message with no sender is a no-op: no session is acquired,
\* no storage step is attempted, no reply is sent and no menu push is made,
\* nothing is logged and nothing raised; the steps of its handling leave the
\* chat and user records, the open sessions and every menu as they were.  A
\* /help message with no sender likewise sends no reply.
C14_NoSenderNoOp ==
    /\ [](\A k \in Tasks :
            SenderlessCommand(k) =>
                /\ calls[k] = << >>
                /\ opened[k] = 0
                /\ closed[k] = 0
                /\ upserts[k] = << >>
                /\ logged[k] = << >>
                /\ escaped[k] = "none"
                /\ pc[k] \in {"start_entry", "help_entry", "return", "done"})
    /\ [][\A k \in Tasks :
            (SenderlessCommand(k) /\ running = k) =>
                UNCHANGED << chats, users, sessions, menu, applied >>]_vars

\* C14 witness: a /start without sender was handled to the end by
\* command_start_handler, with no call made and no session acquired.
C14_Witness ==
    \E k \in Tasks :
        /\ pc[k] = "done"
        /\ executed[k] = << "command_start_handler" >>
        /\ IsStartMessage(msg[k])
        /\ ~msg[k].from_user.present
        /\ calls[k] = << >>
        /\ opened[k] = 0

(***************************************************************************)
(* The /help reply                                                         *)
(***************************************************************************)
\* The localisation keys and literals a text is composed of, in order.
Keys(text) == [i \in 1..Len(text) |-> text[i].key]

\* The composition the /help reply is claimed to have for a role.
ExpectedHelpKeys(is_admin, is_premium) ==
    << "help.header", "\n\n", "help.general" >>
       \o (IF is_premium THEN << "\n", "help.premium" >> ELSE << >>)
       \o (IF is_admin THEN << "\n", "help.admin" >> ELSE << >>)

\* The number of positions of a sequence that hold x.
Occurrences(seq, x) == Cardinality({ i \in 1..Len(seq) : seq[i] = x })

\* C15: command_help_handler sends at most one message, and its text is the
\* header and the general section, then the premium section iff the sender
\* is premium, then the admin section iff the sender's id is the admin id,
\* each exactly once and in this order, all in the sender's locale.
C15_HelpTextByRole ==
    \A k \in Tasks :
        handler[k] = "command_help_handler" =>
            /\ Len(calls[k]) <= 1
            /\ pc[k] \in {"reply_wait", "return", "done"} /\ msg[k].from_user.present
                  => Len(calls[k]) = 1
            /\ \A i \in 1..Len(calls[k]) :
                  LET keys == Keys(calls[k][i].text)
                      adm == msg[k].from_user.id = BOT_ADMIN_ID
                      prem == msg[k].from_user.is_premium = "True"
                  IN /\ calls[k][i].op = "answer"
                     /\ keys = ExpectedHelpKeys(adm, prem)
                     /\ Occurrences(keys, "help.header") = 1
                     /\ Occurrences(keys, "help.general") = 1
                     /\ Occurrences(keys, "help.premium") = (IF prem THEN 1 ELSE 0)
                     /\ Occurrences(keys, "help.admin") = (IF adm THEN 1 ELSE 0)
                     /\ \A j \in 1..Len(calls[k][i].text) :
                           calls[k][i].text[j].locale
                               \in {"", LocaleOf(msg[k].from_user)}

\* C15 witness: the /help of the admin who is premium was answered with all
\* four sections.
C15_Witness ==
    \E k \in Tasks :
        /\ pc[k] = "done"
        /\ executed[k] = << "command_help_handler" >>
        /\ msg[k].from_user.id = BOT_ADMIN_ID
        /\ msg[k].from_user.is_premium = "True"
        /\ Len(calls[k]) = 1
        /\ Keys(calls[k][1].text)
              = << "help.header", "\n\n", "help.general", "\n", "help.premium",
                   "\n", "help.admin" >>

(***************************************************************************)
(* Localisation of the command descriptions                                *)
(***************************************************************************)
\* The results of the localisation collaborator for a locale: t(locale, key)
\* for some key.  A literal of the source is none of them.
IsLocalised(description, locale) ==
    /\ description.locale = locale
    /\ description = t(locale, description.key)

\* The sender's language tag, or "en" when it is absent or empty.
SenderLocale(u) ==
    IF u.language_code \in {"None", ""} THEN "en" ELSE u.language_code

\* C16 (as claimed): in every command list pushed by update_user_commands the
\* description of every command is the localisation result for the sender's
\* locale (the language tag, or "en" when absent or empty), and the command
\* identifiers are those of the sender's role whatever the locale.
C16_DescriptionsLocalised ==
    \A k \in Tasks : \A i \in 1..Len(calls[k]) :
        calls[k][i].op = "set_my_commands" =>
            /\ \A j \in 1..Len(calls[k][i].commands) :
                  IsLocalised(calls[k][i].commands[j].description,
                              SenderLocale(msg[k].from_user))
            /\ Names(calls[k][i].commands) =
                  ExpectedNames(msg[k].from_user.id = BOT_ADMIN_ID,
                                msg[k].from_user.is_premium = "True")

(***************************************************************************)
(* Reachability of the catch-all handlers                                  *)
(***************************************************************************)
\* C17: with the routers in the order root, admin, premium, every message
\* that is neither /start nor /help is claimed by the root catch-all, so the
\* catch-alls of the admin and premium routers never run, for any sender,
\* and "Admin Not implemented!!!" and "Premium Not implemented!!!" are never
\* sent.
C17_FilteredCatchAllsUnreachable ==
    \A k \in Tasks :
        /\ handler[k] \notin {"not_implemented_admin_handler",
                              "not_implemented_premium_handler"}
        /\ \A i \in 1..Len(executed[k]) :
              executed[k][i] \notin {"not_implemented_admin_handler",
                                     "not_implemented_premium_handler"}
        /\ \A i \in 1..Len(calls[k]) :
              calls[k][i].text \notin {PlaceholderText("not_implemented_admin_handler"),
                                       PlaceholderText("not_implemented_premium_handler")}
        /\ (pc[k] \notin {"idle", "dispatch"} /\ IsOtherMessage(msg[k]))
              => /\ executed[k] = << "not_implemented_handler" >>
                 /\ route[k] = 1

\* C17 witness: /xyz of the admin, who is not premium, waits for the reply
\* "User Not implemented!!!" of the root catch-all to be delivered.
C17_Witness ==
    \E k \in Tasks :
        /\ pc[k] = "reply_wait"
        /\ msg[k].text.command = "xyz"
        /\ msg[k].from_user.id = BOT_ADMIN_ID
        /\ msg[k].from_user.is_premium = "None"
        /\ handler[k] = "not_implemented_handler"
        /\ Len(calls[k]) = 1
        /\ calls[k][1].text = << Literal("User Not implemented!!!") >>

(***************************************************************************)
(* The storage session under concurrent /start messages                    *)
(***************************************************************************)
\* The tasks that hold a storage session: between get_session and
\* session.close().
Syncing == { k \in Tasks : pc[k] \in InSync }

\* C18: between the acquisition of the session and its close the handler has
\* no suspension point: a task that holds a session holds the event loop, so
\* at most one session is open at any instant, and while a task holds its
\* session every step taken is a step of that task, so its chat step and its
\* user step are never interleaved with a storage step of another message.
C18_NoSuspensionInSync ==
    /\ [](/\ sessions <= 1
          /\ Cardinality(Syncing) = sessions
          /\ \A k \in Syncing : /\ running = k
                                /\ opened[k] = 1
                                /\ closed[k] = 0)
    /\ [][\A k \in Syncing :
            /\ pc'[k] # pc[k]
            /\ \A o \in Tasks \ {k} : pc'[o] = pc[o]
            /\ (chats' # chats \/ users' # users) => pc[k] \in {"start_chat", "start_user"}]_vars

\* C18 witness: two /start messages are handled concurrently: one task is
\* suspended in the await of its welcome reply while the other, between its
\* chat step and its user step, holds the only open session.
C18_Witness ==
    \E k \in Tasks, o \in Tasks :
        /\ k # o
        /\ pc[o] = "start_answer_wait"
        /\ closed[o] = 1
        /\ pc[k] = "start_user"
        /\ IsStartMessage(msg[k])
        /\ IsStartMessage(msg[o])
        /\ sessions = 1

(***************************************************************************)
(* The command menu under concurrent /start messages                       *)
(***************************************************************************)
\* commands is the complete list of the role and locale of sender u: the
\* identifiers of the role, in order, and no description of another locale.
IsCompleteListOf(commands, u) ==
    /\ Names(commands) = ExpectedNames(u.id = BOT_ADMIN_ID, u.is_premium = "True")
    /\ \A j \in 1..Len(commands) :
          commands[j].description.locale \in {"", SenderLocale(u)}

\* C19: the menu of a chat is at every instant unset or exactly the complete
\* list of the role of one sender, never a mixture: it changes only when a
\* push to that chat is accepted, and then to the whole list of the pushing
\* handler's sender; so it always equals the list of the handler whose
\* accepted push happened last, in particular once all handlers have
\* finished, whatever the order in which the messages arrived.
C19_MenuIsLastAcceptedList ==
    /\ [](\A c \in ChatIds :
            /\ pushes[c] = << >> => menu[c] = << >>
            /\ pushes[c] # << >> =>
                  IsCompleteListOf(menu[c], pushes[c][Len(pushes[c])].from_user)
            /\ \/ menu[c] = << >>
               \/ \E u \in Senders \ {NoUser} : IsCompleteListOf(menu[c], u))
    /\ [][\A c \in ChatIds :
            menu'[c] # menu[c] =>
                \E k \in Tasks :
                    /\ pc[k] = "commands_wait"
                    /\ pc'[k] = "return"
                    /\ msg[k].chat.id = c
                    /\ menu'[c] = calls[k][Len(calls[k])].commands
                    /\ IsCompleteListOf(menu'[c], msg[k].from_user)
                    /\ Len(pushes'[c]) = Len(pushes[c]) + 1]_vars

\* C19 witness: two /start messages of senders with different roles were
\* handled concurrently in chat 20 and both handlers have finished; the push
\* of the message that arrived second was accepted first, so the menu is the
\* list of the sender of the message that arrived first, not that of the
\* last-arrived one.
C19_Witness ==
    /\ InFlight = {}
    /\ received = 2
    /\ Len(pushes[20]) = 2
    /\ pushes[20][1].arrival = 2
    /\ pushes[20][2].arrival = 1
    /\ pushes[20][1].from_user.id # pushes[20][2].from_user.id
    /\ IsCompleteListOf(menu[20], pushes[20][2].from_user)
    /\ ~IsCompleteListOf(menu[20], pushes[20][1].from_user)

====
